---- MODULE Spec2Model ----
(***************************************************************************)
(* Orchestration logic of yt_dlp_streamlit_wrapper: the job runner         *)
(* (download_video) and the batch loops of streamlit_app.py, the job       *)
(* runner of web_app.py, the persisted JSON documents (config, history,    *)
(* playlist cache) and the output-file naming (get_unique_filename,        *)
(* build_yt_dlp_cmd).                                                      *)
(*                                                                         *)
(* Five specifications share the module:                                   *)
(*   Spec          - a batch of download jobs (both applications);         *)
(*   SpecFiles     - the persisted documents and their readers;            *)
(*   SpecPlaylists - the "process playlists" handlers;                     *)
(*   SpecNames     - output templates and the files the tool writes;       *)
(*   SpecCommands  - the argument lists built for the external tool.       *)
(* Each leaves the variables of the others at their idle values.           *)
(***************************************************************************)
EXTENDS Naturals, Integers, Sequences, FiniteSets, TLC

VARIABLES
    \* ---- Spec: a batch of jobs ----
    app,            \* "streamlit" | "web": which application runs the batch
    max_retries,    \* download_video's max_retries / retries parameter
    max_concurrent, \* config["max_concurrent"]
    n,              \* number of videos submitted to the batch
    idx,            \* 1-based position of the batch loop
    pc,             \* control point of the batch / of the current job
    attempt,        \* download_video's local `attempt`
    spawned,        \* attempts of the external tool made by the current job
    zeroExit,       \* some attempt of the current job exited with status 0
    lineNo,         \* lines read from the current process
    cb,             \* progress-callback invocations of the current call
    ret,            \* what the current download_video call returned
    results,        \* the batch loop's `results` list
    total,          \* len(results) as reported by the summary
    downloaded,     \* the summary's count of successes
    procs,          \* procs[i]: the live external processes of job i:
                    \* "attached" (being read), "orphan" (left behind)
    \* ---- SpecFiles: the persisted documents ----
    configFile,     \* config.json
    historyFile,    \* download_history.json
    playlistFile,   \* playlist_data.json
    config,         \* the loaded configuration (a set of <<key, value>>)
    histView,       \* what the history panel read
    cacheView,      \* what the playlist section read
    raisedAt,       \* the operation an exception escaped from, or "none"
    hist0,          \* the history document before the first log_history
    logged,         \* the arguments of the log_history calls so far
    lastLog,        \* the document the last log_history call found
    \* ---- SpecPlaylists: the "process playlists" handler ----
    purls,          \* the URLs of the current run, in processing order
    pidx,           \* 1-based position of the loop over purls
    ppc,            \* "idle" | "resolving" | "crashed"
    playlists,      \* the handler's `playlists` dict: a set of <<url, info>>
    reported,       \* URLs for which an error was shown
    replyOf,        \* what the tool answered for each URL of the run
    runs,           \* handler runs started so far
    \* ---- SpecNames: output templates and files ----
    dir,            \* the names of the files in the output directory
    audio_only,     \* config["audio_only"]
    uq,             \* the last call of get_unique_filename
    output_mode,    \* config["output_mode"]
    dl,             \* the download attempts so far, in order
    \* ---- SpecCommands: the argument list of the external tool ----
    video_id,       \* the video identifier of the last command built
    cmd             \* the last argument list built

jobVars == <<app, max_retries, max_concurrent, n, idx, pc, attempt, spawned,
             zeroExit, lineNo, cb, ret, results, total, downloaded, procs>>

fileVars == <<configFile, historyFile, playlistFile, config, histView,
              cacheView, raisedAt, hist0, logged, lastLog>>

otherFileVars == <<configFile, historyFile, config, histView, cacheView,
                   hist0, logged, lastLog>>

plVars == <<purls, pidx, ppc, playlists, reported, replyOf, runs>>

nameVars == <<dir, audio_only, output_mode, uq, dl>>

cmdVars == <<video_id, cmd>>

vars == <<jobVars, fileVars, plVars, nameVars, cmdVars>>

(***************************************************************************)
(* Bounds of the model.                                                    *)
(***************************************************************************)
MaxVideos == 2
MaxRetries == 3
MaxLines == 2
MaxHistory == 1
MaxEntries == 1
MaxLogCalls == 2
MaxRuns == 2
MaxSuffix == 2
MaxDownloads == 2

(***************************************************************************)
(* Program constants.                                                      *)
(***************************************************************************)
MinConcurrent == 1
MaxConcurrent == 5

(***************************************************************************)
(* Output lines of the external tool.  A line either holds no "%", holds   *)
(* a "%" that the pattern (\d{1,3}\.\d)% does not match, or holds a match  *)
(* with an integer part of one to three digits and one decimal digit.      *)
(***************************************************************************)
NoMatch == [pct |-> FALSE, matched |-> FALSE, int |-> 0, frac |-> 0]
Garbled == [pct |-> TRUE, matched |-> FALSE, int |-> 0, frac |-> 0]

Matched(i, f) == [pct |-> TRUE, matched |-> TRUE, int |-> i, frac |-> f]

Lines == {NoMatch, Garbled, Matched(50, 0), Matched(100, 0), Matched(999, 9)}

\* float(m.group(1)) / 100, in thousandths: "100.0" is 1000, i.e. 1.0
Fraction(line) == line.int * 10 + line.frac

One == 1000

NoCalls == [ones |-> 0, last |-> -1, done |-> 0]

\* progress_callback(p): one more invocation; an exception it raises inside
\* the line loop is swallowed by the inner try
Invoke(c, p) ==
    [c EXCEPT !.ones = IF p = One THEN @ + 1 ELSE @, !.last = p]

\* the line loop's body for one line
OnLine(c, line) ==
    IF line.pct /\ line.matched THEN Invoke(c, Fraction(line)) ELSE c

\* variant: the completion path makes no call
OnSuccess_NoCall(c) == c

\* the completion path: progress_callback(1.0) before returning "Downloaded"
OnSuccess(c) == [Invoke(c, One) EXCEPT !.done = @ + 1]

\* variant: only status 1 counts as a failure
Succeeded_NotOne(rc) == rc # 1

\* process.returncode == 0
Succeeded(rc) == rc = 0

ExitCodes == {0, 1, 2}

\* process.wait(): the process job i reads from has exited and is reaped
Reaped(p, i) == [p EXCEPT ![i] = @ \ {"attached"}]

\* subprocess.Popen(...) returned: job i reads from a new live process
Started(p, i) == [p EXCEPT ![i] = @ \cup {"attached"}]

\* the handler of an exception raised while reading: the process is
\* neither waited for nor killed, and the call no longer reads from it
Abandoned(p, i) == [p EXCEPT ![i] = (@ \ {"attached"}) \cup {"orphan"}]

\* variant: failed results are dropped
AppendResult_OnlyOk(rs, r) == IF r = "Downloaded" THEN Append(rs, r) ELSE rs

\* results.append(result)
AppendResult(rs, r) == Append(rs, r)

Jobs == 1 .. n

\* jobs that have an external process running
RunningJobs == {i \in Jobs : procs[i] # {}}

(***************************************************************************)
(* Initial state: the configuration is loaded, nothing is submitted yet.   *)
(***************************************************************************)
JobInit ==
    /\ app \in {"streamlit", "web"}
    /\ max_retries \in 1 .. MaxRetries
    /\ max_concurrent \in MinConcurrent .. MaxConcurrent
    /\ n = 0
    /\ idx = 1
    /\ pc = "idle"
    /\ attempt = 0
    /\ spawned = 0
    /\ zeroExit = FALSE
    /\ lineNo = 0
    /\ cb = NoCalls
    /\ ret = "none"
    /\ results = << >>
    /\ total = -1
    /\ downloaded = -1
    /\ procs = << >>

\* the download button: the selected videos become the batch
StartBatch ==
    /\ pc = "idle"
    /\ \E k \in 0 .. MaxVideos :
        /\ n' = k
        /\ procs' = [i \in 1 .. k |-> {}]
    /\ idx' = 1
    /\ results' = << >>
    /\ pc' = "loop"
    /\ UNCHANGED <<app, max_retries, max_concurrent, attempt, spawned,
                   zeroExit, lineNo, cb, ret, total, downloaded>>

\* for vid in selected_videos: ... download_video(vid, ...) is entered
NextJob ==
    /\ pc = "loop"
    /\ idx <= n
    /\ attempt' = IF app = "streamlit" THEN 0 ELSE 1
    /\ spawned' = 0
    /\ zeroExit' = FALSE
    /\ lineNo' = 0
    /\ cb' = NoCalls
    /\ ret' = "none"
    /\ pc' = "attempt"
    /\ UNCHANGED <<app, max_retries, max_concurrent, n, idx, results, total,
                   downloaded, procs>>

\* the handlers of streamlit_app.download_video: attempt += 1, and the
\* failure result once attempt >= max_retries
Failed(status) ==
    /\ attempt' = attempt + 1
    /\ IF attempt + 1 >= max_retries
         THEN ret' = status /\ pc' = "returned"
         ELSE ret' = ret /\ pc' = "attempt"

\* while attempt < max_retries: build the command, subprocess.Popen
Spawn ==
    /\ app = "streamlit"
    /\ pc = "attempt"
    /\ attempt < max_retries
    /\ spawned' = spawned + 1
    /\ lineNo' = 0
    /\ \/ /\ procs' = Started(procs, idx)
          /\ pc' = "reading"
          /\ UNCHANGED <<attempt, ret>>
       \/ /\ Failed("Failed: exception")      \* Popen raised
          /\ UNCHANGED procs
    /\ UNCHANGED <<app, max_retries, max_concurrent, n, idx, zeroExit, cb,
                   results, total, downloaded>>

\* for line in process.stdout: one line is read and parsed
ReadLine ==
    /\ app = "streamlit"
    /\ pc = "reading"
    /\ lineNo < MaxLines
    /\ \E line \in Lines : cb' = OnLine(cb, line)
    /\ lineNo' = lineNo + 1
    /\ UNCHANGED <<app, max_retries, max_concurrent, n, idx, pc, attempt,
                   spawned, zeroExit, ret, results, total, downloaded, procs>>

\* reading or printing a line raises (decode error, closed terminal): the
\* outer handler runs; the process is neither waited for nor killed
ReadRaises ==
    /\ app = "streamlit"
    /\ pc = "reading"
    /\ Failed("Failed: exception")
    /\ procs' = Abandoned(procs, idx)
    /\ UNCHANGED <<app, max_retries, max_concurrent, n, idx, spawned,
                   zeroExit, lineNo, cb, results, total, downloaded>>

\* end of output, process.wait(), and the test of the return code
Wait ==
    /\ app = "streamlit"
    /\ pc = "reading"
    /\ procs' = Reaped(procs, idx)
    /\ \E rc \in ExitCodes :
        /\ zeroExit' = (zeroExit \/ rc = 0)
        /\ IF Succeeded(rc)
             THEN /\ cb' = OnSuccess(cb)
                  /\ ret' = "Downloaded"
                  /\ pc' = "returned"
                  /\ UNCHANGED attempt
             ELSE /\ Failed("Failed after attempts")
                  /\ UNCHANGED cb
    /\ UNCHANGED <<app, max_retries, max_concurrent, n, idx, spawned, lineNo,
                   results, total, downloaded>>

\* the processes a job left behind have ended on their own
OrphanExit ==
    /\ \E i \in Jobs :
        /\ "orphan" \in procs[i]
        /\ procs' = [procs EXCEPT ![i] = @ \ {"orphan"}]
    /\ UNCHANGED <<app, max_retries, max_concurrent, n, idx, pc, attempt,
                   spawned, zeroExit, lineNo, cb, ret, results, total,
                   downloaded>>

\* the locals of a download_video call after it has returned
JobLocalsGone ==
    /\ attempt' = 0
    /\ spawned' = 0
    /\ zeroExit' = FALSE
    /\ lineNo' = 0
    /\ cb' = NoCalls
    /\ ret' = "none"

\* the call returned: the result is reported and collected
Collect ==
    /\ app = "streamlit"
    /\ pc = "returned"
    /\ results' = AppendResult(results, ret)
    /\ idx' = idx + 1
    /\ pc' = "loop"
    /\ JobLocalsGone
    /\ UNCHANGED <<app, max_retries, max_concurrent, n, total, downloaded,
                   procs>>

CountOk(rs) == Cardinality({i \in 1 .. Len(rs) : rs[i] = "Downloaded"})

\* after the loop: the summary "Downloaded k / len(results) videos"
Finish ==
    /\ app = "streamlit"
    /\ pc = "loop"
    /\ idx > n
    /\ total' = Len(results)
    /\ downloaded' = CountOk(results)
    /\ pc' = "done"
    /\ UNCHANGED <<app, max_retries, max_concurrent, n, idx, attempt, spawned,
                   zeroExit, lineNo, cb, ret, results, procs>>

(***************************************************************************)
(* web_app.download_video and the "Download All" loop.                     *)
(***************************************************************************)
\* subprocess.run(cmd, check=True) passes no capture_output, so the
\* CalledProcessError it raises carries stderr = None
RunCapturesStderr == FALSE

\* for attempt in range(1, retries + 1): subprocess.run(cmd, check=True),
\* and the handler of CalledProcessError
WebAttempt ==
    /\ app = "web"
    /\ pc = "attempt"
    /\ attempt <= max_retries
    /\ spawned' = spawned + 1
    /\ \E outcome \in {"exit0", "nonzero", "spawn"} :
        /\ zeroExit' = (zeroExit \/ outcome = "exit0")
        /\ CASE outcome = "exit0" ->
                  ret' = "True" /\ pc' = "returned" /\ UNCHANGED attempt
             [] outcome = "spawn" ->
                  \* not a CalledProcessError: leaves download_video
                  ret' = "raised" /\ pc' = "crashed" /\ UNCHANGED attempt
             [] outcome = "nonzero" ->
                  IF ~RunCapturesStderr
                    THEN \* e.stderr.strip() on None raises in the handler
                         ret' = "raised" /\ pc' = "crashed" /\ UNCHANGED attempt
                    ELSE IF attempt = max_retries
                           THEN ret' = "False" /\ pc' = "returned"
                                /\ UNCHANGED attempt
                           ELSE ret' = ret /\ pc' = "attempt"
                                /\ attempt' = attempt + 1
    /\ UNCHANGED <<app, max_retries, max_concurrent, n, idx, lineNo, cb,
                   results, total, downloaded, procs>>

\* if download_video(...): downloaded += 1
WebCollect ==
    /\ app = "web"
    /\ pc = "returned"
    /\ results' = Append(results, ret)
    /\ idx' = idx + 1
    /\ pc' = "loop"
    /\ JobLocalsGone
    /\ UNCHANGED <<app, max_retries, max_concurrent, n, total, downloaded,
                   procs>>

\* "Done! Downloaded k/len(videos) videos."
WebFinish ==
    /\ app = "web"
    /\ pc = "loop"
    /\ idx > n
    /\ total' = n
    /\ downloaded' = Cardinality({i \in 1 .. Len(results) : results[i] = "True"})
    /\ pc' = "done"
    /\ UNCHANGED <<app, max_retries, max_concurrent, n, idx, attempt, spawned,
                   zeroExit, lineNo, cb, ret, results, procs>>


\* the batch variables while no batch is modelled
JobIdle ==
    /\ app = "streamlit"
    /\ max_retries = 2
    /\ max_concurrent = 2
    /\ n = 0
    /\ idx = 1
    /\ pc = "idle"
    /\ attempt = 0
    /\ spawned = 0
    /\ zeroExit = FALSE
    /\ lineNo = 0
    /\ cb = NoCalls
    /\ ret = "none"
    /\ results = << >>
    /\ total = -1
    /\ downloaded = -1
    /\ procs = << >>

(***************************************************************************)
(* Strings that are edited character by character are sequences of         *)
(* pieces: a piece is one of the characters sanitize_filename removes, or  *)
(* a run of other characters.                                              *)
(***************************************************************************)
Illegal == {"\\", "/", "*", "?", ":", "\"", "<", ">", "|"}

Legal(c) == c \notin Illegal

\* re.sub(r'[\\/*?:"<>|]', "", name)
sanitize_filename(name) == SelectSeq(name, Legal)

(***************************************************************************)
(* get_playlist_info.  The tool's answer: a non-zero exit, a failure to    *)
(* start, output that is no JSON, or a JSON document whose title and whose *)
(* entries' id and title may be missing (<<"-">> stands for a missing key).*)
(***************************************************************************)
Missing == <<"-">>

Entry(id, title) == [id |-> id, title |-> title]

Doc(title, entries) == [kind |-> "json", title |-> title, entries |-> entries]

Fault(kind) == [kind |-> kind, title |-> Missing, entries |-> << >>]

Replies ==
    {Fault("exit"), Fault("spawn"), Fault("badjson"),
     Doc(<<"P", "?">>, << >>),
     Doc(Missing, <<Entry(<<"a">>, <<"T", "/", "1">>)>>),
     Doc(<<"Q">>, <<Entry(<<"a">>, Missing), Entry(Missing, <<"x">>)>>)}

\* data.get(key, default)
GetOr(value, default) == IF value = Missing THEN default ELSE value

\* the exception the body of get_playlist_info raises, or "none"
Raised(reply) ==
    CASE reply.kind = "exit" -> "CalledProcessError"
      [] reply.kind = "spawn" -> "FileNotFoundError"
      [] reply.kind = "badjson" -> "JSONDecodeError"
      [] OTHER ->
           IF \E i \in 1 .. Len(reply.entries) : reply.entries[i].id = Missing
             THEN "KeyError"
             ELSE "none"

\* the dict built from the parsed document
Info(reply) ==
    [title |-> sanitize_filename(GetOr(reply.title, <<"Untitled Playlist">>)),
     videos |->
        [i \in 1 .. Len(reply.entries) |->
            [id |-> reply.entries[i].id,
             title |-> sanitize_filename(
                          GetOr(reply.entries[i].title,
                                <<"Video ", ToString(i)>>))]]]

\* streamlit_app: except Exception; web_app: except CalledProcessError
Caught(a, exc) == a = "streamlit" \/ exc = "CalledProcessError"

OldInfo == Info(Doc(<<"Old">>, <<Entry(<<"z">>, <<"Z">>)>>))

(***************************************************************************)
(* Persisted JSON documents.  A file is absent, holds text json.load       *)
(* rejects, or holds a JSON value.  A JSON object is a set of              *)
(* <<key, value>> pairs with distinct keys, a JSON array a sequence.       *)
(***************************************************************************)
Absent(empty) == [kind |-> "absent", val |-> empty]
Corrupt(empty) == [kind |-> "corrupt", val |-> empty]
Json(v) == [kind |-> "json", val |-> v]

\* os.path.exists(path)
Exists(doc) == doc.kind # "absent"

\* json.load(f): the value, or an exception (JSONDecodeError)
LoadRaises(doc) == doc.kind = "corrupt"

Keys(obj) == {kv[1] : kv \in obj}

\* dict.update(other): the keys of `other` override, the rest are kept
Update(obj, other) ==
    {kv \in obj : kv[1] \notin Keys(other)} \cup other

DEFAULT_CONFIG == {<<"quality", "best">>, <<"thumbnails", "embed">>}

Unloaded == {<<"unloaded", "">>}

\* the config.json documents considered
ConfigDocs ==
    {Absent({}), Corrupt({}), Json({}), Json({<<"quality", "720p">>}),
     Json({<<"thumbnails", "skip">>, <<"extra", "1">>})}

\* DownloadResult records, by name
Entries == {"r1", "r2"}

SeqsUpTo(S, k) == UNION {[1 .. m -> S] : m \in 0 .. k}

HistoryDocs ==
    {Absent(<< >>), Corrupt(<< >>)}
        \cup {Json(h) : h \in SeqsUpTo(Entries, MaxHistory)}

\* the playlist_data.json documents considered: url -> descriptor
PlaylistDocs ==
    {Absent({}), Corrupt({}), Json({<<"u1", OldInfo>>})}

NoLog == [kind |-> "none", val |-> << >>]

FilesIdle ==
    /\ configFile = Absent({})
    /\ historyFile = Absent(<< >>)
    /\ playlistFile = Absent({})
    /\ config = Unloaded
    /\ histView = << >>
    /\ cacheView = {}
    /\ raisedAt = "none"
    /\ hist0 = Absent(<< >>)
    /\ logged = << >>
    /\ lastLog = NoLog

FilesInit ==
    /\ configFile \in ConfigDocs
    /\ historyFile \in HistoryDocs
    /\ playlistFile \in PlaylistDocs
    /\ config = Unloaded
    /\ histView = << >>
    /\ cacheView = {}
    /\ raisedAt = "none"
    /\ hist0 = historyFile
    /\ logged = << >>
    /\ lastLog = NoLog

\* load_config(): defaults, overridden by the keys of config.json
LoadConfig ==
    /\ raisedAt = "none"
    /\ config = Unloaded
    /\ IF Exists(configFile) /\ LoadRaises(configFile)
         THEN raisedAt' = "load_config" /\ UNCHANGED config
         ELSE /\ config' = IF Exists(configFile)
                             THEN Update(DEFAULT_CONFIG, configFile.val)
                             ELSE DEFAULT_CONFIG
              /\ UNCHANGED raisedAt
    /\ UNCHANGED <<configFile, historyFile, playlistFile, histView,
                   cacheView, hist0, logged, lastLog>>

\* the history panel: history = [], json.load when the file exists
HistoryPanel ==
    /\ raisedAt = "none"
    /\ IF Exists(historyFile) /\ LoadRaises(historyFile)
         THEN raisedAt' = "history_read" /\ UNCHANGED histView
         ELSE /\ histView' = IF Exists(historyFile) THEN historyFile.val
                                                    ELSE << >>
              /\ UNCHANGED raisedAt
    /\ UNCHANGED <<configFile, historyFile, playlistFile, config, cacheView,
                   hist0, logged, lastLog>>

\* the playlist section: json.load when playlist_data.json exists
PlaylistRead ==
    /\ raisedAt = "none"
    /\ IF Exists(playlistFile) /\ LoadRaises(playlistFile)
         THEN raisedAt' = "playlist_read" /\ UNCHANGED cacheView
         ELSE /\ cacheView' = IF Exists(playlistFile) THEN playlistFile.val
                                                      ELSE {}
              /\ UNCHANGED raisedAt
    /\ UNCHANGED <<configFile, historyFile, playlistFile, config, histView,
                   hist0, logged, lastLog>>

\* variant: the existing entries are discarded
Extend_Overwrite(history, entries) == entries

\* history.extend(entries)
Extend(history, entries) == history \o entries

\* log_history(entries)
LogHistory ==
    /\ raisedAt = "none"
    /\ Len(logged) < MaxLogCalls
    /\ \E entries \in SeqsUpTo(Entries, MaxEntries) :
        /\ lastLog' = historyFile
        /\ IF Exists(historyFile) /\ LoadRaises(historyFile)
             THEN /\ raisedAt' = "log_history"
                  /\ UNCHANGED <<historyFile, logged>>
             ELSE /\ historyFile' =
                        Json(Extend(IF Exists(historyFile)
                                      THEN historyFile.val ELSE << >>,
                                    entries))
                  /\ logged' = Append(logged, entries)
                  /\ UNCHANGED raisedAt
    /\ UNCHANGED <<configFile, playlistFile, config, histView, cacheView,
                   hist0>>

\* the next script run, after an exception ended the previous one
Rerun ==
    /\ raisedAt # "none"
    /\ raisedAt' = "none"
    /\ config' = Unloaded
    /\ UNCHANGED <<configFile, historyFile, playlistFile, histView,
                   cacheView, hist0, logged, lastLog>>


(***************************************************************************)
(* Output file names.  A name is a sequence of pieces; the file system     *)
(* sees the string the pieces spell.                                       *)
(***************************************************************************)
RECURSIVE Join(_)
Join(name) == IF name = << >> THEN "" ELSE Head(name) \o Join(Tail(name))

\* f"{base_name}.{ext}"
Plain(base, ext) == base \o <<".", ext>>

\* f"{base_name}_{i}.{ext}"
Suffixed(base, i, ext) == base \o <<"_", ToString(i), ".", ext>>

\* (output_dir / candidate).exists()
InDir(d, name) == Join(name) \in d

RECURSIVE Probe(_, _, _, _)
\* the while loop of get_unique_filename, entered with candidate number i
Probe(d, base, ext, i) ==
    IF InDir(d, Suffixed(base, i, ext))
      THEN Probe(d, base, ext, i + 1)
      ELSE Suffixed(base, i, ext)

\* variant: a single suffix is tried
get_unique_filename_Once(d, base, ext) ==
    IF InDir(d, Plain(base, ext)) THEN Suffixed(base, 1, ext)
                                  ELSE Plain(base, ext)

get_unique_filename(d, base, ext) ==
    IF InDir(d, Plain(base, ext)) THEN Probe(d, base, ext, 1)
                                  ELSE Plain(base, ext)

\* "%(" in unique_name
HasPlaceholder(name) ==
    \E i \in 1 .. Len(name) : name[i] \in {"%(", "%(ext)s", "%(title)s"}

\* ext = "mp3" if config["audio_only"] else "%(ext)s"
TargetExt(audio) == IF audio THEN "mp3" ELSE "%(ext)s"

\* the out_template of build_yt_dlp_cmd
OutTemplate(d, audio, title) ==
    IF title # << >>
      THEN LET base == sanitize_filename(title)
               unique == get_unique_filename(d, base, TargetExt(audio))
           IN  IF ~HasPlaceholder(unique) THEN unique
                                          ELSE Plain(base, "%(ext)s")
      ELSE <<"%(title)s", ".", "%(ext)s">>

\* the name the tool gives the file it writes for a template
Written(template, realTitle, realExt) ==
    [i \in 1 .. Len(template) |->
        CASE template[i] = "%(ext)s" -> realExt
          [] template[i] = "%(title)s" -> realTitle
          [] OTHER -> template[i]]

\* titles as the video descriptors carry them (already sanitized)
Titles == {<<"Intro">>, <<"Intro", "_1">>, << >>}

Exts == {"mp3", "%(ext)s"}

RealExts(audio) == IF audio THEN {"mp3"} ELSE {"mp4", "webm"}

\* files that may be in the output directory before the first download
OldFiles ==
    {"Intro.mp3", "Intro.mp4"}
        \cup {Join(Suffixed(<<"Intro">>, k, "mp3")) : k \in 1 .. MaxSuffix}

NoCall == [called |-> FALSE, dir |-> {}, base |-> << >>, ext |-> "",
           result |-> << >>, after |-> {}]

Call(d, base, ext, after) ==
    [called |-> TRUE, dir |-> d, base |-> base, ext |-> ext,
     result |-> get_unique_filename(d, base, ext), after |-> after]

OutputModes == {"Save to Folder", "Download via Browser"}

NamesIdle ==
    /\ dir = {}
    /\ audio_only = FALSE
    /\ output_mode = "Save to Folder"
    /\ uq = NoCall
    /\ dl = << >>

NamesInit ==
    /\ dir \in SUBSET OldFiles
    /\ audio_only \in BOOLEAN
    /\ output_mode \in OutputModes
    /\ uq = NoCall
    /\ dl = << >>

\* a call of get_unique_filename on the directory as it was found
UniqueName ==
    /\ dl = << >>
    /\ \E base \in Titles \ {<< >>}, ext \in Exts :
        uq' = Call(dir, base, ext, dir)
    /\ UNCHANGED <<dir, audio_only, output_mode, dl>>

\* the last attempt left its job unfinished: download_video goes round
\* its loop again for the same video
Retrying ==
    /\ dl # << >>
    /\ ~dl[Len(dl)].ok
    /\ dl[Len(dl)].attempt < max_retries

\* the browser-mode pickup after a "Downloaded" result: <title>.mp3 or
\* <title>.mp4 when it exists, else <title>.webm when that exists
Pickup(d, title, audio) ==
    LET base == sanitize_filename(title)
        candidate == Plain(base, IF audio THEN "mp3" ELSE "mp4")
        webm_candidate == Plain(base, "webm")
    IN  IF InDir(d, candidate) THEN Join(candidate)
        ELSE IF InDir(d, webm_candidate) THEN Join(webm_candidate)
        ELSE ""

\* what an attempt of the tool does to the output file: it completes it
\* (exit status 0), fails and leaves a file at the name, or fails and
\* leaves nothing (also when the tool could not be started)
Outcomes == {"ok", "partial", "nothing"}

\* one attempt of download_video: the command is built, the tool runs; a
\* failed attempt is followed by the next attempt of the same video until
\* max_retries is reached; after a "Downloaded" result the batch loop
\* registers the file for browser transfer
Download ==
    /\ Len(dl) < MaxDownloads
    /\ \E title \in Titles, outcome \in Outcomes,
          ext \in RealExts(audio_only) :
        LET template == OutTemplate(dir, audio_only, title)
            file == Join(Written(template, "Real", ext))
            after == IF outcome = "nothing" THEN dir ELSE dir \cup {file}
        IN  /\ Retrying => Join(title) = dl[Len(dl)].title
            /\ uq' = IF title # << >>
                       THEN Call(dir, sanitize_filename(title),
                                 TargetExt(audio_only), dir)
                       ELSE uq
            /\ dir' = after
            /\ dl' = Append(dl,
                   [title |-> Join(title), before |-> dir,
                    template |-> Join(template), ok |-> outcome = "ok",
                    attempt |-> IF Retrying THEN dl[Len(dl)].attempt + 1
                                            ELSE 1,
                    file |-> IF outcome = "nothing" THEN "" ELSE file,
                    picked |-> IF outcome = "ok"
                                    /\ output_mode = "Download via Browser"
                                 THEN Pickup(after, title, audio_only)
                                 ELSE ""])
    /\ UNCHANGED <<audio_only, output_mode>>

(***************************************************************************)
(* The argument list of the external tool: build_yt_dlp_cmd of             *)
(* streamlit_app and the list download_video of web_app builds.  A video   *)
(* identifier is a sequence of pieces, so that a leading "http" and the    *)
(* "://" of a URL are pieces of their own.                                 *)
(***************************************************************************)
Ids ==
    {<<"http", "s://", "youtu.be/abc">>, <<"http", "://", "example.com/v">>,
     <<"http", "ABCDEFG">>, <<"dQw4w9WgXcQ">>}

\* video_id.startswith("http")
StartsWithHttp(id) == id # << >> /\ Head(id) = "http"

WatchBase == "https://www.youtube.com/watch?v="

\* the last element build_yt_dlp_cmd appends
Target(id) == IF StartsWithHttp(id) THEN Join(id) ELSE WatchBase \o Join(id)

\* f"https://www.youtube.com/watch?v={video_id}"
WebTarget(id) == WatchBase \o Join(id)

COOKIE_FILE == "cookies.txt"

\* str(output_dir / out_template)
OutPath(template) == "out/" \o Join(template)

RECURSIVE CommaJoin(_)
\* ",".join(items)
CommaJoin(items) ==
    IF Len(items) <= 1 THEN Join(items)
                       ELSE Head(items) \o "," \o CommaJoin(Tail(items))

NotP(c) == c # "p"

\* config['quality'].replace('p', '')
Height(quality) == Join(SelectSeq(quality, NotP))

\* the settings build_yt_dlp_cmd reads: the configuration and format_id
Setting(quality, thumbnails, metadata, subtitles, sponsorblock, proxy, fmt) ==
    [quality |-> quality, thumbnails |-> thumbnails, metadata |-> metadata,
     subtitles |-> subtitles, sponsorblock |-> sponsorblock, proxy |-> proxy,
     format_id |-> fmt]

\* DEFAULT_CONFIG has subtitles = "all": a string, joined letter by letter
Settings ==
    {Setting(<<"best">>, "embed", "embed", <<"a", "l", "l">>, "mark", "", ""),
     Setting(<<"720", "p">>, "write", "write", <<"en", "de">>, "remove",
             "socks5://127.0.0.1:9", ""),
     Setting(<<"22">>, "skip", "none", << >>, "none", "", "137")}

\* the -f option and the thumbnail option
FormatOptions(audio, s) ==
    IF audio
      THEN <<"-f", "bestaudio", "--extract-audio", "--audio-format", "mp3">>
             \o (IF s.thumbnails # "skip" THEN <<"--embed-thumbnail">>
                                          ELSE << >>)
      ELSE (IF s.format_id # ""
              THEN <<"-f", s.format_id>>
              ELSE IF s.quality = <<"best">>
                THEN <<"-f", "bestvideo[ext=mp4]+bestaudio[ext=m4a]"
                                 \o "/best[ext=mp4]/best">>
                ELSE IF \E i \in 1 .. Len(s.quality) : s.quality[i] = "p"
                  THEN <<"-f", "bestvideo[height=" \o Height(s.quality)
                                 \o "][ext=mp4]+bestaudio[ext=m4a]/best[height="
                                 \o Height(s.quality) \o "][ext=mp4]/best[height="
                                 \o Height(s.quality) \o "]">>
                  ELSE <<"-f", Join(s.quality)>>)
             \o (CASE s.thumbnails = "embed" -> <<"--embed-thumbnail">>
                   [] s.thumbnails = "write" -> <<"--write-thumbnail">>
                   [] OTHER -> << >>)

\* metadata, subtitles, sponsorblock and proxy options
OtherOptions(s) ==
    (CASE s.metadata = "embed" -> <<"--embed-metadata">>
       [] s.metadata = "write" -> <<"--write-info-json">>
       [] OTHER -> << >>)
    \o (IF s.subtitles # << >>
            /\ ~\E i \in 1 .. Len(s.subtitles) : s.subtitles[i] = "none"
          THEN <<"--write-subs", "--sub-lang", CommaJoin(s.subtitles),
                 "--sub-format", "best", "--embed-subs">>
          ELSE << >>)
    \o (CASE s.sponsorblock = "mark" -> <<"--sponsorblock-mark", "all">>
          [] s.sponsorblock = "remove" -> <<"--sponsorblock-remove", "all">>
          [] OTHER -> << >>)
    \o (IF s.proxy # "" THEN <<"--proxy", s.proxy>> ELSE << >>)

build_yt_dlp_cmd(id, d, audio, s, title) ==
    <<"yt-dlp", "--no-cache-dir", "-o", OutPath(OutTemplate(d, audio, title)),
      "--cookies", COOKIE_FILE>>
        \o FormatOptions(audio, s) \o OtherOptions(s) \o <<Target(id)>>

\* the settings web_app.download_video reads with config.get
WebSetting(quality, thumbnail, metadata, subtitles, sponsorblock) ==
    [quality |-> quality, thumbnail |-> thumbnail, metadata |-> metadata,
     subtitles |-> subtitles, sponsorblock |-> sponsorblock]

WebSettings ==
    {WebSetting("", FALSE, FALSE, << >>, FALSE),
     WebSetting("best", TRUE, TRUE, <<"en", "de">>, TRUE)}

\* the cmd list of web_app.download_video
WebCommand(id, s) ==
    <<"yt-dlp", "--no-cache-dir", "-o",
      OutPath(<<"%(title)s", ".", "%(ext)s">>), WebTarget(id),
      "--cookies", COOKIE_FILE>>
        \o (IF s.quality # "" THEN <<"-f", s.quality>> ELSE << >>)
        \o (IF s.thumbnail THEN <<"--write-thumbnail", "--embed-thumbnail">>
                           ELSE << >>)
        \o (IF s.metadata THEN <<"--write-info-json">> ELSE << >>)
        \o (IF s.subtitles # << >>
              THEN <<"--write-subs", "--embed-subs", "--sub-lang",
                     CommaJoin(s.subtitles), "--sub-format", "best">>
              ELSE << >>)
        \o (IF s.sponsorblock THEN <<"--sponsorblock-mark", "all">>
                              ELSE << >>)

CommandsIdle ==
    /\ video_id = << >>
    /\ cmd = << >>

\* streamlit_app: download_video builds the command of an attempt
BuildCmd ==
    /\ app = "streamlit"
    /\ \E id \in Ids, s \in Settings, title \in Titles :
        /\ video_id' = id
        /\ cmd' = build_yt_dlp_cmd(id, dir, audio_only, s, title)

\* web_app: download_video builds the command of an attempt
WebBuildCmd ==
    /\ app = "web"
    /\ \E id \in Ids, s \in WebSettings :
        /\ video_id' = id
        /\ cmd' = WebCommand(id, s)

(***************************************************************************)
(* The "Process Playlists" handler (streamlit_app) and the "Process URLs"  *)
(* handler (web_app).                                                      *)
(***************************************************************************)
Urls == {"u1", "u2"}

\* list(set(...)): the distinct URLs, in an order the set decides
UrlLists ==
    {<< >>, <<"u1">>, <<"u2">>, <<"u1", "u2">>, <<"u2", "u1">>}

PlaylistsIdle ==
    /\ purls = << >>
    /\ pidx = 1
    /\ ppc = "idle"
    /\ playlists = {}
    /\ reported = {}
    /\ replyOf = {}
    /\ runs = 0

\* the "Process Playlists" / "Process URLs" button
ProcessStart ==
    /\ ppc = "idle"
    /\ raisedAt = "none"
    /\ runs < MaxRuns
    /\ runs' = runs + 1
    /\ purls' \in UrlLists
    /\ pidx' = 1
    /\ playlists' = {}
    /\ reported' = {}
    /\ replyOf' = {}
    /\ ppc' = "resolving"
    /\ UNCHANGED <<playlistFile, raisedAt>>

\* for url in urls: info = get_playlist_info(url); if info: playlists[url] = info
ResolveNext ==
    /\ ppc = "resolving"
    /\ pidx <= Len(purls)
    /\ \E reply \in Replies :
        LET url == purls[pidx]
            exc == Raised(reply)
        IN  /\ replyOf' = replyOf \cup {<<url, reply>>}
            /\ IF exc = "none"
                 THEN /\ playlists' = playlists \cup {<<url, Info(reply)>>}
                      /\ pidx' = pidx + 1
                      /\ UNCHANGED <<reported, ppc, raisedAt>>
                 ELSE IF Caught(app, exc)
                   THEN /\ reported' = reported \cup {url}
                        /\ pidx' = pidx + 1
                        /\ UNCHANGED <<playlists, ppc, raisedAt>>
                   ELSE /\ ppc' = "crashed"
                        /\ raisedAt' = "process"
                        /\ UNCHANGED <<playlists, reported, pidx>>
    /\ UNCHANGED <<purls, runs, playlistFile>>

\* after the loop: if playlists: json.dump(playlists, f)
ProcessEnd ==
    /\ ppc = "resolving"
    /\ pidx > Len(purls)
    /\ playlistFile' = IF playlists # {} THEN Json(playlists) ELSE playlistFile
    /\ ppc' = "idle"
    /\ UNCHANGED <<purls, pidx, playlists, reported, replyOf, runs, raisedAt>>

\* the next script run, after an exception ended the handler
ProcessRerun ==
    /\ ppc = "crashed"
    /\ ppc' = "idle"
    /\ raisedAt' = "none"
    /\ UNCHANGED <<purls, pidx, playlists, reported, replyOf, runs,
                   playlistFile>>

Init == JobInit /\ FilesIdle /\ PlaylistsIdle /\ NamesIdle /\ CommandsIdle

Next ==
    \/ StartBatch /\ UNCHANGED <<fileVars, plVars, nameVars, cmdVars>>
    \/ NextJob /\ UNCHANGED <<fileVars, plVars, nameVars, cmdVars>>
    \/ Spawn /\ UNCHANGED <<fileVars, plVars, nameVars, cmdVars>>
    \/ ReadLine /\ UNCHANGED <<fileVars, plVars, nameVars, cmdVars>>
    \/ ReadRaises /\ UNCHANGED <<fileVars, plVars, nameVars, cmdVars>>
    \/ Wait /\ UNCHANGED <<fileVars, plVars, nameVars, cmdVars>>
    \/ OrphanExit /\ UNCHANGED <<fileVars, plVars, nameVars, cmdVars>>
    \/ Collect /\ UNCHANGED <<fileVars, plVars, nameVars, cmdVars>>
    \/ Finish /\ UNCHANGED <<fileVars, plVars, nameVars, cmdVars>>
    \/ WebAttempt /\ UNCHANGED <<fileVars, plVars, nameVars, cmdVars>>
    \/ WebCollect /\ UNCHANGED <<fileVars, plVars, nameVars, cmdVars>>
    \/ WebFinish /\ UNCHANGED <<fileVars, plVars, nameVars, cmdVars>>

Spec == Init /\ [][Next]_vars

FilesStart ==
    FilesInit /\ JobIdle /\ PlaylistsIdle /\ NamesIdle /\ CommandsIdle

FilesNext ==
    \/ LoadConfig /\ UNCHANGED <<jobVars, plVars, nameVars, cmdVars>>
    \/ HistoryPanel /\ UNCHANGED <<jobVars, plVars, nameVars, cmdVars>>
    \/ PlaylistRead /\ UNCHANGED <<jobVars, plVars, nameVars, cmdVars>>
    \/ LogHistory /\ UNCHANGED <<jobVars, plVars, nameVars, cmdVars>>
    \/ Rerun /\ UNCHANGED <<jobVars, plVars, nameVars, cmdVars>>

SpecFiles == FilesStart /\ [][FilesNext]_vars

PlaylistsStart ==
    /\ PlaylistsIdle
    /\ FilesIdle
    /\ NamesIdle
    /\ CommandsIdle
    /\ app \in {"streamlit", "web"}
    /\ max_retries = 2
    /\ max_concurrent = 2
    /\ n = 0
    /\ idx = 1
    /\ pc = "idle"
    /\ attempt = 0
    /\ spawned = 0
    /\ zeroExit = FALSE
    /\ lineNo = 0
    /\ cb = NoCalls
    /\ ret = "none"
    /\ results = << >>
    /\ total = -1
    /\ downloaded = -1
    /\ procs = << >>

PlaylistsNext ==
    \/ ProcessStart /\ UNCHANGED <<jobVars, otherFileVars, nameVars, cmdVars>>
    \/ ResolveNext /\ UNCHANGED <<jobVars, otherFileVars, nameVars, cmdVars>>
    \/ ProcessEnd /\ UNCHANGED <<jobVars, otherFileVars, nameVars, cmdVars>>
    \/ ProcessRerun /\ UNCHANGED <<jobVars, otherFileVars, nameVars, cmdVars>>

SpecPlaylists == PlaylistsStart /\ [][PlaylistsNext]_vars

NamesStart ==
    NamesInit /\ JobIdle /\ FilesIdle /\ PlaylistsIdle /\ CommandsIdle

NamesNext ==
    \/ UniqueName /\ UNCHANGED <<jobVars, fileVars, plVars, cmdVars>>
    \/ Download /\ UNCHANGED <<jobVars, fileVars, plVars, cmdVars>>

SpecNames == NamesStart /\ [][NamesNext]_vars

CommandsStart ==
    /\ CommandsIdle
    /\ FilesIdle
    /\ PlaylistsIdle
    /\ dir \in SUBSET OldFiles
    /\ audio_only \in BOOLEAN
    /\ output_mode = "Save to Folder"
    /\ uq = NoCall
    /\ dl = << >>
    /\ app \in {"streamlit", "web"}
    /\ max_retries = 2
    /\ max_concurrent = 2
    /\ n = 0
    /\ idx = 1
    /\ pc = "idle"
    /\ attempt = 0
    /\ spawned = 0
    /\ zeroExit = FALSE
    /\ lineNo = 0
    /\ cb = NoCalls
    /\ ret = "none"
    /\ results = << >>
    /\ total = -1
    /\ downloaded = -1
    /\ procs = << >>

CommandsNext ==
    \/ BuildCmd /\ UNCHANGED <<jobVars, fileVars, plVars, nameVars>>
    \/ WebBuildCmd /\ UNCHANGED <<jobVars, fileVars, plVars, nameVars>>

SpecCommands == CommandsStart /\ [][CommandsNext]_vars

(***************************************************************************)
(* Claims about the job runner and the batch loops (Spec).                 *)
(***************************************************************************)
JobEnded == pc \in {"returned", "crashed"}

FailureMarkers == {"Failed: exception", "Failed after attempts", "False"}

\* C1: a job whose attempts all fail (non-zero exit, spawn or IO exception)
\* ends after exactly max_retries attempts with a result carrying the
\* failure marker, in streamlit_app and in web_app alike.
C1_RetryBound ==
    (JobEnded /\ ~zeroExit) =>
        (spawned = max_retries /\ ret \in FailureMarkers)

\* The part of C1 that streamlit_app.download_video satisfies.
StreamlitRetryBound ==
    (app = "streamlit" /\ JobEnded /\ ~zeroExit) =>
        (spawned = max_retries /\ ret \in FailureMarkers)

\* C2: the batch loop of streamlit_app collects exactly one result per
\* submitted video: while the loop runs, one result per video already
\* processed, and at the end len(results) and the summary's total equal
\* the number of submitted videos.
C2_OneResultPerVideo ==
    (app = "streamlit" /\ pc # "idle") =>
        /\ Len(results) = idx - 1
        /\ pc = "done" => (Len(results) = n /\ total = n)

C2_Witness ==
    /\ app = "streamlit"
    /\ pc = "done"
    /\ n = 2
    /\ results[1] = "Failed: exception"
    /\ results[2] = "Downloaded"

\* C3: at most config.max_concurrent jobs have their external process
\* running at the same time.
C3_BoundedConcurrency == Cardinality(RunningJobs) <= max_concurrent

\* What the sequential loop does guarantee: at most one job has a process
\* that a download_video call is still reading from.
OneAttachedProcess ==
    Cardinality({i \in Jobs : "attached" \in procs[i]}) <= MinConcurrent

\* C4: a job is reported as succeeded ("Downloaded", True) only if one of
\* its attempts had the external tool exit with status 0.
C4_SuccessOnlyOnZeroExit == ret \in {"Downloaded", "True"} => zeroExit

C4_Witness ==
    /\ pc = "returned"
    /\ ret = "Downloaded"
    /\ spawned = 2
    /\ attempt = 1

\* C10 as stated: in a call that ends in success the callback receives 1.0
\* exactly once during the whole call, as its last invocation.
C10_OneExactlyOnce ==
    (app = "streamlit" /\ ret = "Downloaded") =>
        (cb.ones = 1 /\ cb.last = One)

\* C10 as amended: in a call that ends in success the last callback
\* invocation has the value 1.0 and is the one invocation made by the
\* completion path; output lines showing 100.0% add earlier invocations
\* with the value 1.0.
C10_CompletionCallLast ==
    (app = "streamlit" /\ ret = "Downloaded") =>
        (cb.last = One /\ cb.done = 1 /\ cb.ones >= 1)

C10_Witness ==
    /\ pc = "returned"
    /\ ret = "Downloaded"
    /\ spawned = 2
    /\ cb.ones = 3

\* lines without "%" or whose "%" the pattern does not match change nothing:
\* no invocation, and the exception of the failed match is swallowed
NonMatchingIgnored ==
    \A line \in Lines : ~(line.pct /\ line.matched) => OnLine(cb, line) = cb

\* C11: every value download_video passes to the progress callback lies in
\* [0, 1], whatever line the tool prints (percentages with three integer
\* digits included), and lines that do not match the percentage pattern
\* cause no invocation and no error.
C11_CallbackInUnitInterval ==
    /\ cb.last # NoCalls.last => cb.last \in 0 .. One
    /\ NonMatchingIgnored

(***************************************************************************)
(* Claims about the persisted documents (SpecFiles).                       *)
(***************************************************************************)
RECURSIVE Flatten(_)
Flatten(ss) == IF ss = << >> THEN << >> ELSE Head(ss) \o Flatten(Tail(ss))

\* C5: starting from a persisted history H (an absent file counts as
\* empty), after log_history(A), log_history(B), ... the persisted
\* history is H ++ A ++ B ++ ...: nothing lost, duplicated or reordered.
C5_HistoryAccumulates ==
    hist0.kind # "corrupt" =>
        IF logged = << >>
          THEN historyFile = hist0
          ELSE historyFile = Json(hist0.val \o Flatten(logged))

C5_Witness ==
    /\ hist0 = Json(<<"r1">>)
    /\ logged = << <<"r2">>, <<"r1">> >>
    /\ historyFile = Json(<<"r1", "r2", "r1">>)

\* C6: an unparseable persisted document makes no operation fail: the
\* configuration loaded from it is the defaults, reading the history or
\* the playlist cache gives the empty value, and log_history then writes
\* only the new results.
C6_CorruptTolerated ==
    /\ raisedAt = "none"
    /\ (configFile.kind = "corrupt" /\ config # Unloaded) =>
            config = DEFAULT_CONFIG
    /\ lastLog.kind = "corrupt" =>
            (logged # << >> /\ historyFile = Json(logged[Len(logged)]))

(***************************************************************************)
(* Claims about the playlist processing (SpecPlaylists).                   *)
(***************************************************************************)
\* the failures C9 names: non-zero exit, malformed JSON, an entry without id
ResolutionFails(reply) ==
    \/ reply.kind \in {"exit", "badjson"}
    \/ /\ reply.kind = "json"
       /\ \E i \in 1 .. Len(reply.entries) : reply.entries[i].id = Missing

Processed == {ur[1] : ur \in replyOf}

IsolatedFor(apps) ==
    app \in apps =>
        /\ \A ur \in replyOf :
            /\ ResolutionFails(ur[2]) =>
                  /\ ppc # "crashed"
                  /\ ur[1] \in reported
                  /\ ur[1] \notin Keys(playlists)
            /\ (ur[2].kind = "json" /\ ~ResolutionFails(ur[2])) =>
                  <<ur[1], Info(ur[2])>> \in playlists
        /\ (ppc = "idle" /\ runs > 0) =>
            /\ Processed = {purls[i] : i \in 1 .. Len(purls)}
            /\ playlists # {} => playlistFile = Json(playlists)

\* C9: a URL whose resolution fails is reported and absent from the
\* mapping, nothing partial is stored for it, processing goes on to the
\* remaining URLs, and the URLs that resolved are in the mapping with the
\* descriptor resolved for them; in streamlit_app and in web_app.
C9_FailureIsolated == IsolatedFor({"streamlit", "web"})

\* The part of C9 that streamlit_app satisfies.
StreamlitFailureIsolated == IsolatedFor({"streamlit"})

\* the mapping a reader of playlist_data.json gets (nothing when absent)
CacheContent == IF Exists(playlistFile) THEN playlistFile.val ELSE {}

\* a handler run has ended by reaching the end of the handler
RunCompleted ==
    /\ ppc = "idle"
    /\ runs > 0
    /\ \A ur \in replyOf :
          Raised(ur[2]) = "none" \/ Caught(app, Raised(ur[2]))

\* C14: after every "process playlists" run (over at least one URL) the
\* persisted playlist cache is exactly the mapping of the URLs that
\* resolved in that run: no entry of an earlier run survives, also when
\* every URL of the run failed.
C14_CacheReplacedWholesale ==
    (RunCompleted /\ purls # << >>) => CacheContent = playlists

\* The part of C14 that holds: a run in which some URL resolved replaces
\* the cache by the mapping of that run.
CacheReplacedWhenSomeResolved ==
    (RunCompleted /\ playlists # {}) => playlistFile = Json(playlists)

(***************************************************************************)
(* Claims about the output names (SpecNames).                              *)
(***************************************************************************)
\* the k-th name of the order base.ext, base_1.ext, base_2.ext, ...
Candidate(base, ext, k) ==
    IF k = 0 THEN Join(base) \o "." \o ext
             ELSE Join(base) \o "_" \o ToString(k) \o "." \o ext

\* C7: get_unique_filename returns the first name of the order base.ext,
\* base_1.ext, base_2.ext, ... that is not in the directory (base.ext when
\* it is free, base_N.ext when exactly base.ext .. base_(N-1).ext exist),
\* and it creates no file.
C7_FirstFreeName ==
    uq.called =>
        /\ \E k \in 0 .. Cardinality(uq.dir) :
            /\ Join(uq.result) = Candidate(uq.base, uq.ext, k)
            /\ \A j \in 0 .. k - 1 : Candidate(uq.base, uq.ext, j) \in uq.dir
        /\ Join(uq.result) \notin uq.dir
        /\ uq.after = uq.dir

C7_Witness ==
    /\ uq.called
    /\ uq.dir = {"Intro.mp3", "Intro_1.mp3", "Intro.mp4"}
    /\ Join(uq.result) = "Intro_2.mp3"

SameTitleTwice(audio) ==
    /\ audio_only \in audio
    /\ Len(dl) >= 2
    /\ dl[1].title # ""
    /\ dl[2].title = dl[1].title
    /\ dl[1].before = {}
    /\ dl[1].ok

SecondGetsSuffix(audio) ==
    SameTitleTwice(audio) =>
        /\ dl[1].template = dl[1].title \o "." \o TargetExt(audio_only)
        /\ dl[2].template = dl[1].title \o "_1." \o TargetExt(audio_only)

\* C8: two videos with the same title downloaded one after the other into
\* an empty directory, the first successfully: the first template is
\* <title>.<ext>, the second <title>_1.<ext>, in audio-only mode and in
\* video mode.
C8_SecondGetsSuffix == SecondGetsSuffix(BOOLEAN)

\* The part of C8 that holds: audio-only mode.
AudioSecondGetsSuffix == SecondGetsSuffix({TRUE})

RetriesKeepName(audio) ==
    audio_only \in audio =>
        \A k \in 2 .. Len(dl) :
            dl[k].attempt > 1 => dl[k].template = dl[k - 1].template

\* C13: within one job every retry targets the output name of the first
\* attempt: also when a failed attempt left a (partial) file at that name,
\* the command of the next attempt uses the same name and no new suffix.
C13_RetriesKeepName == RetriesKeepName(BOOLEAN)

\* The part of C13 that holds: video mode, where the template of a titled
\* video is always <title>.%(ext)s.
VideoRetriesKeepName == RetriesKeepName({FALSE})

\* The part of C13 that holds in both modes: a retry after an attempt that
\* left no file.
RetryAfterNothingKeepsName ==
    \A k \in 2 .. Len(dl) :
        (dl[k].attempt > 1 /\ dl[k - 1].file = "") =>
            dl[k].template = dl[k - 1].template

\* the names the pickup probes for a title
PickupNames(title) == {title \o ".mp3", title \o ".mp4", title \o ".webm"}

\* C15: in "Download via Browser" mode, for every (titled) video whose
\* result is "Downloaded", the path registered for browser transfer is the
\* path the job's own output template named, also when an earlier file
\* with the same title exists and the job wrote to a suffixed name.
C15_PickupIsOwnFile ==
    output_mode = "Download via Browser" =>
        \A k \in 1 .. Len(dl) :
            (dl[k].ok /\ dl[k].title # "") => dl[k].picked = dl[k].file

\* The part of C15 that holds: a titled video downloaded while none of the
\* names the pickup probes was taken.
PickupIsOwnFileWhenNamesFree ==
    output_mode = "Download via Browser" =>
        \A k \in 1 .. Len(dl) :
            (dl[k].ok /\ dl[k].title # ""
                /\ dl[k].before \cap PickupNames(dl[k].title) = {}) =>
                    dl[k].picked = dl[k].file

(***************************************************************************)
(* Claims about the argument lists (SpecCommands).                         *)
(***************************************************************************)
\* scheme "://" rest, with the schemes the applications are given
FullyQualified(id) ==
    Len(id) >= 2 /\ id[1] = "http" /\ id[2] \in {"://", "s://"}

Expected(id) == IF FullyQualified(id) THEN Join(id) ELSE WatchBase \o Join(id)

\* C12: the last element of the argument list built for a video is the
\* identifier verbatim if and only if the identifier is a fully qualified
\* URL; for any other identifier (a bare video ID beginning with "http"
\* included) it is the watch-URL base followed by the identifier.
C12_TargetIsLast == cmd # << >> => cmd[Len(cmd)] = Expected(video_id)

\* The part of C12 that holds: build_yt_dlp_cmd puts the target last, and
\* the target is as claimed unless a bare ID begins with "http".
StreamlitTargetUnlessHttpId ==
    (app = "streamlit" /\ cmd # << >>
        /\ (StartsWithHttp(video_id) => FullyQualified(video_id))) =>
            cmd[Len(cmd)] = Expected(video_id)

\* web_app always builds the watch URL, as the fifth argument.
WebTargetIsFifth ==
    (app = "web" /\ cmd # << >>) => cmd[5] = WatchBase \o Join(video_id)

====
